---- MODULE Spec2Model ----
(***************************************************************************)
(* Role-aware authentication and job-posting service (Next.js route       *)
(* handlers over a Prisma store).  The store tables, the process          *)
(* environment, the wall clock and the last request/response pair are the *)
(* state; every route handler is one action.                              *)
(***************************************************************************)
EXTENDS Integers, Sequences, FiniteSets, TLC

VARIABLES
    envSecret,      \* process.env.JWT_SECRET ("" when not configured)
    now,            \* wall clock, in whole seconds (Math.floor(Date.now() / 1000))
    users,          \* prisma.user
    universities,   \* prisma.university
    agents,         \* prisma.agent
    trainers,       \* prisma.trainer
    nextUserId,     \* next server-generated user id
    jobs,           \* prisma.job
    nextJobId,      \* next server-generated job id
    jobPosts,       \* prisma.jobPost
    nextJobPostId,  \* next server-generated job post id
    issued,         \* tokens handed out by login (ghost: what clients hold)
    registering,    \* the register requests in progress, each at an await
    writing,        \* the PUT and DELETE requests in progress, each at an await
    resp            \* the last request and the response it got

vars == <<envSecret, now, users, universities, agents, trainers, nextUserId,
          jobs, nextJobId, jobPosts, nextJobPostId, issued, registering,
          writing, resp>>

userVars == <<users, universities, agents, trainers, nextUserId>>
jobVars == <<jobs, nextJobId>>
jobPostVars == <<jobPosts, nextJobPostId>>

----------------------------------------------------------------------------
(* Bounds of the model *)

MaxUserId == 2
MaxJobId == 1
MaxJobPostId == 1
MaxTokens == 4
MaxTicks == 1

(* Program constants *)

\* expiresIn: "24h", in seconds
TokenLifetime == 86400

----------------------------------------------------------------------------
(* JavaScript values *)

\* a string-valued field that the JSON body does not carry
Undefined == "<undefined>"
\* a number-valued field that the JSON body does not carry
UndefinedNum == -1

\* !x for a string-valued x
Falsy(x) == x = Undefined \/ x = ""
\* !x for a number-valued x
FalsyNum(x) == x = UndefinedNum \/ x = 0

----------------------------------------------------------------------------
(* Input domains *)

UserTypes == {"UNIVERSITY", "AGENT", "TRAINER"}

Usernames == {"alice", "bob"}
Emails == {"alice@x", "bob@x"}
\* each client registers with its own password
PasswordOf(username) == IF username = "alice" THEN "pw-alice" ELSE "pw-bob"
Passwords == {PasswordOf(n) : n \in Usernames}

ConfiguredSecret == "s3cr3t"
FallbackSecret == "fallback_jwt_secret"
\* keys a caller can sign with: the fallback is printed in the source
CallerKeys == {FallbackSecret, "caller-key"}

\* additionalInfo of the request body; present = FALSE is a body without it
NoInfo ==
    [present |-> FALSE,
     name |-> Undefined, location |-> Undefined, establishedYear |-> UndefinedNum,
     accreditation |-> Undefined,
     agencyName |-> Undefined, licenseNumber |-> Undefined,
     specialization |-> Undefined, yearsExperience |-> UndefinedNum,
     expertise |-> << >>, certification |-> Undefined,
     availableHours |-> UndefinedNum, hourlyRate |-> UndefinedNum]

UniversityInfo ==
    [NoInfo EXCEPT !.present = TRUE, !.name = "Example University",
                   !.location = "New York", !.establishedYear = 1900,
                   !.accreditation = "Fully Accredited"]

AgentInfo ==
    [NoInfo EXCEPT !.present = TRUE, !.agencyName = "Top Recruiters",
                   !.licenseNumber = "AG12345",
                   !.specialization = "International Students",
                   !.yearsExperience = 5]

\* a string is a sequence of characters
Math == <<"M", "a", "t", "h">>
Science == <<"S", "c", "i">>

TrainerInfo ==
    [NoInfo EXCEPT !.present = TRUE, !.expertise = <<Math, Science>>,
                   !.certification = "Certified Teacher",
                   !.availableHours = 20, !.hourlyRate = 50]

InfoFor(userType) ==
    CASE userType = "UNIVERSITY" -> UniversityInfo
      [] userType = "AGENT" -> AgentInfo
      [] userType = "TRAINER" -> TrainerInfo
      [] OTHER -> NoInfo

RegisterBodies ==
    { [username |-> n, email |-> e, password |-> p, userType |-> k,
       additionalInfo |-> i] :
        n \in Usernames \cup {Undefined},
        e \in Emails \cup {Undefined},
        p \in Passwords \cup {Undefined},
        k \in UserTypes \cup {"ADMIN", Undefined},
        i \in {NoInfo, UniversityInfo, AgentInfo, TrainerInfo} }

\* the bodies the Register action sends: alice and bob under their own
\* emails and alice under bob's, each with its own password and with the
\* additionalInfo of its kind or none; one body lacks each required field, one
\* names a kind that does not exist
RegisterInputs ==
    { b \in RegisterBodies :
        /\ <<b.username, b.email>> \in
              {<<"alice", "alice@x">>, <<"bob", "bob@x">>, <<"alice", "bob@x">>}
        /\ b.password = PasswordOf(b.username)
        /\ b.userType \in UserTypes
        /\ b.additionalInfo \in {NoInfo, InfoFor(b.userType)} }
      \cup
    { patch @@ [username |-> "alice", email |-> "alice@x", password |-> "pw-alice",
                userType |-> "AGENT", additionalInfo |-> AgentInfo] :
        patch \in {[username |-> Undefined], [email |-> Undefined],
                   [password |-> Undefined], [userType |-> Undefined],
                   [userType |-> "ADMIN"]} }

LoginBodies ==
    { [email |-> e, password |-> p] :
        e \in Emails \cup {Undefined}, p \in Passwords \cup {Undefined} }

----------------------------------------------------------------------------
(* bcrypt *)

\* bcrypt.hash(password, 10)
Hash(password) == [alg |-> "bcrypt", of |-> password]
\* bcrypt.compare(password, hash)
Compare(password, hash) == hash.alg = "bcrypt" /\ hash.of = password

----------------------------------------------------------------------------
(* jsonwebtoken *)

\* process.env.JWT_SECRET || "fallback_jwt_secret"
JWT_SECRET == IF envSecret = "" THEN FallbackSecret ELSE envSecret

\* a sign call whose payload leaves the kind out
JwtSign_OmitsUserType(claims, secret, t) ==
    [form |-> "jwt", userId |-> claims.userId, email |-> claims.email,
     userType |-> Undefined, iat |-> t, exp |-> t + TokenLifetime,
     key |-> secret]

\* jwt.sign(claims, secret, { expiresIn: "24h" }) at time t
JwtSign(claims, secret, t) ==
    [form |-> "jwt", userId |-> claims.userId, email |-> claims.email,
     userType |-> claims.userType, iat |-> t, exp |-> t + TokenLifetime,
     key |-> secret]

\* a string that is no JWT
Garbage ==
    [form |-> "garbage", userId |-> 0, email |-> "", userType |-> "",
     iat |-> 0, exp |-> 0, key |-> ""]

\* request.headers.get("Authorization")?.split(" ")[1] of a request that has
\* no such part
NoToken == [Garbage EXCEPT !.form = "undefined"]

\* a verify that still accepts at the second of expiry
JwtVerifies_ExpiryInclusive(token, secret, t) ==
    /\ token.form = "jwt"
    /\ token.key = secret
    /\ t <= token.exp

\* jwt.verify(token, secret) at time t does not throw
JwtVerifies(token, secret, t) ==
    /\ token.form = "jwt"
    /\ token.key = secret
    /\ t < token.exp

\* the payload jwt.verify returns
JwtDecoded(token) ==
    [userId |-> token.userId, email |-> token.email, userType |-> token.userType]

----------------------------------------------------------------------------
(* Strings *)

RECURSIVE Join(_, _)
\* Array.prototype.join: the strings of words with sep between them
Join(words, sep) ==
    IF words = << >> THEN << >>
    ELSE IF Len(words) = 1 THEN Head(words)
    ELSE Head(words) \o sep \o Join(Tail(words), sep)

RECURSIVE Split(_, _)
\* String.prototype.split on the one-character separator sep
Split(str, sep) ==
    IF \A i \in 1..Len(str) : <<str[i]>> # sep THEN <<str>>
    ELSE LET i == CHOOSE k \in 1..Len(str) :
                      /\ <<str[k]>> = sep
                      /\ \A j \in 1..(k - 1) : <<str[j]>> # sep
         IN <<SubSeq(str, 1, i - 1)>> \o Split(SubSeq(str, i + 1, Len(str)), sep)

Comma == <<",">>

----------------------------------------------------------------------------
(* The store *)

NoUser ==
    [id |-> 0, username |-> Undefined, email |-> Undefined,
     password |-> Hash(Undefined), userType |-> Undefined]

\* prisma.user.findUnique({ where: { email } }), NoUser for null
FindUserByEmail(email) ==
    IF \E u \in users : u.email = email
    THEN CHOOSE u \in users : u.email = email
    ELSE NoUser

\* prisma.user.findUnique({ where: { id } }), NoUser for null
FindUserById(id) ==
    IF \E u \in users : u.id = id
    THEN CHOOSE u \in users : u.id = id
    ELSE NoUser

\* a uniqueness check that looks at the email alone
ExistingUser_EmailOnly(email, username) ==
    \E u \in users : u.email = email

\* prisma.user.findFirst({ where: { OR: [{ email }, { username }] } }) is not null
ExistingUser(email, username) ==
    \E u \in users : u.email = email \/ u.username = username

\* the rows of an extension table that belong to user id
RowsOf(table, id) == {r \in table : r.userId = id}

\* the extension table of a kind
TableOf(userType) ==
    CASE userType = "UNIVERSITY" -> universities
      [] userType = "AGENT" -> agents
      [] userType = "TRAINER" -> trainers
      [] OTHER -> {}

----------------------------------------------------------------------------
(* POST /api/auth/register *)

UniversityRow(id, info) ==
    [userId |-> id, name |-> info.name, location |-> info.location,
     establishedYear |-> info.establishedYear, accreditation |-> info.accreditation]

AgentRow(id, info) ==
    [userId |-> id, agencyName |-> info.agencyName,
     licenseNumber |-> info.licenseNumber, specialization |-> info.specialization,
     yearsExperience |-> info.yearsExperience]

TrainerRow(id, info) ==
    [userId |-> id, expertise |-> Join(info.expertise, Comma),
     certification |-> info.certification, availableHours |-> info.availableHours,
     hourlyRate |-> info.hourlyRate]

\* the trainer profile as the responses show it
TrainerView(row) == [row EXCEPT !.expertise = Split(row.expertise, Comma)]

\* a response that leaves the store as it is
RegisterReject(status, error) ==
    [status |-> status, error |-> error, userId |-> 0, exposed |-> {},
     users |-> users, universities |-> universities, agents |-> agents,
     trainers |-> trainers, nextUserId |-> nextUserId]

\* the handler's response to body, and the store it leaves
\* checks that look for the existing user first
RegisterCheck_UniquenessFirst(body) ==
    IF ExistingUser(body.email, body.username)
    THEN "User with this email or username already exists"
    ELSE IF \/ Falsy(body.username) \/ Falsy(body.email)
            \/ Falsy(body.password) \/ Falsy(body.userType)
    THEN "Username, email, password, and userType are required"
    ELSE IF body.userType \notin {"UNIVERSITY", "AGENT", "TRAINER"}
    THEN "Invalid user type"
    ELSE ""

\* the three checks before the first write, in the order of the code: the
\* error of the first one that fails, "" when all pass
RegisterCheck(body) ==
    IF \/ Falsy(body.username) \/ Falsy(body.email)
       \/ Falsy(body.password) \/ Falsy(body.userType)
    THEN "Username, email, password, and userType are required"
    ELSE IF body.userType \notin {"UNIVERSITY", "AGENT", "TRAINER"}
    THEN "Invalid user type"
    ELSE IF ExistingUser(body.email, body.username)
    THEN "User with this email or username already exists"
    ELSE ""

RegisterResult(body) ==
    IF RegisterCheck(body) # ""
    THEN RegisterReject(400, RegisterCheck(body))
    ELSE
      LET newUser == [id |-> nextUserId, username |-> body.username,
                      email |-> body.email, password |-> Hash(body.password),
                      userType |-> body.userType]
          info == body.additionalInfo
          created == [RegisterReject(500, "Internal server error") EXCEPT
                          !.users = users \cup {newUser},
                          !.nextUserId = nextUserId + 1]
      IN  IF ~info.present
          THEN \* additionalInfo.name of undefined throws; the catch answers
               created
          ELSE [created EXCEPT
                  !.status = 201,
                  !.error = "",
                  !.userId = newUser.id,
                  !.exposed = IF body.userType = "TRAINER"
                              THEN {"id", "username", "email", "password",
                                    "userType", "trainer"}
                              ELSE {"userId"},
                  !.universities = IF body.userType = "UNIVERSITY"
                                   THEN universities \cup {UniversityRow(newUser.id, info)}
                                   ELSE universities,
                  !.agents = IF body.userType = "AGENT"
                             THEN agents \cup {AgentRow(newUser.id, info)}
                             ELSE agents,
                  !.trainers = IF body.userType = "TRAINER"
                               THEN trainers \cup {TrainerRow(newUser.id, info)}
                               ELSE trainers]

\* The earlier handler of the same route, which the file still carries: it
\* reads email, password and userType (default "TRAINER"), checks the email
\* alone and writes the user row without a profile.
RegisterEmailOnlyResult(body) ==
    LET userType == IF body.userType = Undefined THEN "TRAINER" ELSE body.userType IN
    IF Falsy(body.email) \/ Falsy(body.password)
    THEN RegisterReject(400, "Email and password are required")
    ELSE IF ~Falsy(userType) /\ userType \notin {"UNIVERSITY", "AGENT", "TRAINER"}
    THEN RegisterReject(400, "Invalid user type")
    ELSE IF FindUserByEmail(body.email) # NoUser
    THEN RegisterReject(400, "User already exists")
    ELSE [RegisterReject(201, "") EXCEPT
            !.userId = nextUserId,
            !.exposed = {"userId"},
            !.users = users \cup {[id |-> nextUserId, username |-> Undefined,
                                   email |-> body.email,
                                   password |-> Hash(body.password),
                                   userType |-> userType]},
            !.nextUserId = nextUserId + 1]

----------------------------------------------------------------------------
(* POST /api/auth/login *)

LoginReject(status, error) ==
    [status |-> status, error |-> error, token |-> NoToken, userId |-> 0,
     userType |-> Undefined, exposed |-> {}, expertise |-> << >>]

\* a refusal that tells an unknown email from a wrong password
InvalidCredentials_NamesCause(user) ==
    IF user = NoUser THEN LoginReject(404, "User not found")
    ELSE LoginReject(401, "Invalid password")

\* if (!user || !(await bcrypt.compare(...))): one answer for both
InvalidCredentials(user) == LoginReject(401, "Invalid credentials")

\* a catch that answers with the message of the error it caught
DataNotFound_AnswersMessage(userType) ==
    LoginReject(500, IF userType = "UNIVERSITY" THEN "University data not found"
                     ELSE IF userType = "AGENT" THEN "Agent not found"
                     ELSE "Trainer not found")

\* a missing profile reported to the caller as a failed login
DataNotFound_AsInvalidCredentials(userType) == LoginReject(401, "Invalid credentials")

\* throw new Error("University data not found" | "Agent not found" |
\* "Trainer not found"), answered by the catch
DataNotFound(userType) == LoginReject(500, "Internal server error")

\* the handler's response to body at the current time; login writes nothing
LoginResult(body) ==
    IF Falsy(body.email) \/ Falsy(body.password)
    THEN LoginReject(400, "Email and password are required")
    ELSE
      LET user == FindUserByEmail(body.email) IN
      IF user = NoUser \/ ~Compare(body.password, user.password)
      THEN InvalidCredentials(user)
      ELSE IF user.userType \notin {"UNIVERSITY", "AGENT", "TRAINER"}
      THEN \* default: throw new Error("Invalid user type")
           LoginReject(500, "Internal server error")
      ELSE IF RowsOf(TableOf(user.userType), user.id) = {}
      THEN DataNotFound(user.userType)
      ELSE
        LET row == CHOOSE r \in RowsOf(TableOf(user.userType), user.id) : TRUE
        IN [status |-> 200,
            error |-> "",
            token |-> JwtSign([userId |-> user.id, email |-> user.email,
                               userType |-> user.userType], JWT_SECRET, now),
            userId |-> user.id,
            userType |-> user.userType,
            exposed |-> {"id", "email", "username", "userType",
                         IF user.userType = "UNIVERSITY" THEN "university"
                         ELSE IF user.userType = "AGENT" THEN "agent"
                         ELSE "trainer"},
            expertise |-> IF user.userType = "TRAINER"
                          THEN Split(row.expertise, Comma)
                          ELSE << >>]

----------------------------------------------------------------------------
(* The identity resolver and the access gate *)

\* what verifyToken returns for null
NoActor == [userId |-> 0, email |-> Undefined, userType |-> Undefined]

\* a resolver that trusts the claims and skips the store
verifyToken_ClaimsOnly(token) ==
    IF token.form = "undefined" THEN NoActor
    ELSE IF ~JwtVerifies(token, JWT_SECRET, now) THEN NoActor
    ELSE JwtDecoded(token)

\* verifyToken(token): the actor read back from the store, NoActor for null
verifyToken(token) ==
    IF token.form = "undefined" THEN NoActor
    ELSE IF ~JwtVerifies(token, JWT_SECRET, now) THEN NoActor
    ELSE LET user == FindUserById(token.userId) IN
         IF user = NoUser THEN NoActor
         ELSE [userId |-> user.id, email |-> user.email, userType |-> user.userType]

\* An Authorization header is the sequence of its parts between single
\* spaces; NoHeader is a request without the header.
NoHeader == << >>

\* authHeader.startsWith("Bearer ")
StartsWithBearer(header) == Len(header) >= 2 /\ header[1] = "Bearer"

\* authHeader.split(" ")[1]
HeaderToken(header) == IF Len(header) >= 2 THEN header[2] ELSE NoToken

\* a gate that verifies the token and forgets the allow-list
authMiddleware_NoKindCheck(allowedTypes, header) ==
    IF header = NoHeader \/ ~StartsWithBearer(header)
    THEN [pass |-> FALSE, status |-> 401, error |-> "Unauthorized", user |-> NoActor]
    ELSE IF ~JwtVerifies(HeaderToken(header), JWT_SECRET, now)
    THEN [pass |-> FALSE, status |-> 401, error |-> "Invalid token", user |-> NoActor]
    ELSE [pass |-> TRUE, status |-> 0, error |-> "",
          user |-> JwtDecoded(HeaderToken(header))]

\* a gate that looks at the kind in the payload before it verifies the token
authMiddleware_KindBeforeToken(allowedTypes, header) ==
    IF header = NoHeader \/ ~StartsWithBearer(header)
    THEN [pass |-> FALSE, status |-> 401, error |-> "Unauthorized", user |-> NoActor]
    ELSE IF /\ allowedTypes # {}
            /\ HeaderToken(header).form = "jwt"
            /\ HeaderToken(header).userType \notin allowedTypes
    THEN [pass |-> FALSE, status |-> 403, error |-> "Forbidden", user |-> NoActor]
    ELSE IF ~JwtVerifies(HeaderToken(header), JWT_SECRET, now)
    THEN [pass |-> FALSE, status |-> 401, error |-> "Invalid token", user |-> NoActor]
    ELSE [pass |-> TRUE, status |-> 0, error |-> "",
          user |-> JwtDecoded(HeaderToken(header))]

\* authMiddleware(allowedTypes) applied to a request with this header:
\* pass says whether the wrapped handler is invoked, user is request.user
authMiddleware(allowedTypes, header) ==
    IF header = NoHeader \/ ~StartsWithBearer(header)
    THEN [pass |-> FALSE, status |-> 401, error |-> "Unauthorized", user |-> NoActor]
    ELSE
      LET token == HeaderToken(header) IN
      IF ~JwtVerifies(token, JWT_SECRET, now)
      THEN [pass |-> FALSE, status |-> 401, error |-> "Invalid token", user |-> NoActor]
      ELSE IF allowedTypes # {} /\ JwtDecoded(token).userType \notin allowedTypes
      THEN [pass |-> FALSE, status |-> 403, error |-> "Forbidden", user |-> NoActor]
      ELSE [pass |-> TRUE, status |-> 0, error |-> "", user |-> JwtDecoded(token)]

----------------------------------------------------------------------------
(* /api/jobs *)

JobFields ==
    {"jobTitle", "vacancies", "location", "durationHours", "remuneration", "contact"}

\* a request body that carries none of the fields the jobs handlers read
EmptyJobBody ==
    [id |-> UndefinedNum, jobTitle |-> Undefined, vacancies |-> UndefinedNum,
     location |-> Undefined, durationHours |-> UndefinedNum,
     remuneration |-> UndefinedNum, contact |-> Undefined,
     postedById |-> UndefinedNum]

\* prisma.job.findUnique({ where: { id } }) is not null
JobExists(id) == \E j \in jobs : j.id = id

\* prisma.job.findUnique({ where: { id } }) of a job that exists
FindJob(id) == CHOOSE j \in jobs : j.id = id

\* What prisma.job.create does with an owner id that no user row has is
\* decided by the schema's relation mode: with foreign keys the create
\* throws, without them the row is written.
CreateThrows(ownerId, foreignKeys) == foreignKeys /\ FindUserById(ownerId) = NoUser

\* an allow-list that names every kind
JobsAllowedTypes_EveryKind == {"AGENT", "UNIVERSITY", "TRAINER"}

\* authMiddleware(["AGENT", "UNIVERSITY"])
JobsAllowedTypes == {"AGENT", "UNIVERSITY"}

\* an owner taken from the body when the body names one
OwnerOfNewJob_FromBody(user, body) ==
    IF body.postedById # UndefinedNum THEN body.postedById ELSE user.userId

\* postedById of a created job: user.userId, whatever the body says
OwnerOfNewJob(user, body) == user.userId

\* an ownership check that answers 404 only for a job that does not exist
NotFoundOrUnauthorized_ExistenceOnly(id, user) == ~JobExists(id)

\* !job || job.postedById !== user.userId
NotFoundOrUnauthorized(id, user) ==
    ~JobExists(id) \/ FindJob(id).postedById # user.userId

\* a handler that lets the body say who is asking
RequestUser_BodyAsserts(gate, body) ==
    IF body.postedById # UndefinedNum
    THEN [gate.user EXCEPT !.userId = body.postedById]
    ELSE gate.user

\* const user = (request as any).user: what the gate attached
RequestUser(gate, body) == gate.user

JobsReject(ran, status, error) ==
    [ran |-> ran, status |-> status, error |-> error, job |-> EmptyJobBody,
     jobs |-> jobs, nextJobId |-> nextJobId]

\* POST: the gate, then the create handler
JobsPostResult(header, body, foreignKeys) ==
    LET gate == authMiddleware(JobsAllowedTypes, header) IN
    IF ~gate.pass THEN JobsReject(FALSE, gate.status, gate.error)
    ELSE IF \/ Falsy(body.jobTitle) \/ FalsyNum(body.vacancies)
            \/ Falsy(body.location) \/ FalsyNum(body.durationHours)
            \/ FalsyNum(body.remuneration) \/ Falsy(body.contact)
    THEN JobsReject(TRUE, 400, "All fields are required")
    ELSE IF CreateThrows(OwnerOfNewJob(RequestUser(gate, body), body), foreignKeys)
    THEN JobsReject(TRUE, 500, "Internal server error")
    ELSE
      LET newJob == [id |-> nextJobId, jobTitle |-> body.jobTitle,
                     vacancies |-> body.vacancies, location |-> body.location,
                     durationHours |-> body.durationHours,
                     remuneration |-> body.remuneration, contact |-> body.contact,
                     postedById |-> OwnerOfNewJob(RequestUser(gate, body), body)]
      IN [ran |-> TRUE, status |-> 201, error |-> "", job |-> newJob,
          jobs |-> jobs \cup {newJob}, nextJobId |-> nextJobId + 1]

\* an update that writes every field of data, the undefined ones too
UpdateJob_WritesUndefined(job, body) ==
    [job EXCEPT !.jobTitle = body.jobTitle, !.vacancies = body.vacancies,
                !.location = body.location, !.durationHours = body.durationHours,
                !.remuneration = body.remuneration, !.contact = body.contact]

\* an update that also writes the owner column
UpdateJob_ReassignsOwner(job, body) ==
    [job EXCEPT !.jobTitle = body.jobTitle, !.postedById = job.postedById + 1]

\* prisma.job.update({ where: { id }, data }): a field that is undefined in
\* data is left as it is
UpdateJob(job, body) ==
    [job EXCEPT
        !.jobTitle = IF body.jobTitle = Undefined THEN @ ELSE body.jobTitle,
        !.vacancies = IF body.vacancies = UndefinedNum THEN @ ELSE body.vacancies,
        !.location = IF body.location = Undefined THEN @ ELSE body.location,
        !.durationHours = IF body.durationHours = UndefinedNum THEN @
                          ELSE body.durationHours,
        !.remuneration = IF body.remuneration = UndefinedNum THEN @
                         ELSE body.remuneration,
        !.contact = IF body.contact = Undefined THEN @ ELSE body.contact]

\* PUT: the gate, then the update handler
JobsPutResult(header, body) ==
    LET gate == authMiddleware(JobsAllowedTypes, header) IN
    IF ~gate.pass THEN JobsReject(FALSE, gate.status, gate.error)
    ELSE IF FalsyNum(body.id)
    THEN JobsReject(TRUE, 400, "Job ID is required")
    ELSE IF NotFoundOrUnauthorized(body.id, RequestUser(gate, body))
    THEN JobsReject(TRUE, 404, "Job not found or unauthorized")
    ELSE
      LET updatedJob == UpdateJob(FindJob(body.id), body)
      IN [ran |-> TRUE, status |-> 200, error |-> "", job |-> updatedJob,
          jobs |-> (jobs \ {FindJob(body.id)}) \cup {updatedJob},
          nextJobId |-> nextJobId]

\* DELETE: the gate, then the delete handler
JobsDeleteResult(header, body) ==
    LET gate == authMiddleware(JobsAllowedTypes, header) IN
    IF ~gate.pass THEN JobsReject(FALSE, gate.status, gate.error)
    ELSE IF FalsyNum(body.id)
    THEN JobsReject(TRUE, 400, "Job ID is required")
    ELSE IF NotFoundOrUnauthorized(body.id, RequestUser(gate, body))
    THEN JobsReject(TRUE, 404, "Job not found or unauthorized")
    ELSE [ran |-> TRUE, status |-> 200, error |-> "", job |-> EmptyJobBody,
          jobs |-> jobs \ {FindJob(body.id)}, nextJobId |-> nextJobId]

\* a select that returns the whole user row
PostedBySelect_WholeRow == {"id", "username", "email", "password", "userType"}

\* select: { email: true, userType: true }
PostedBySelect == {"email", "userType"}

\* include: { postedBy: { select } }
PostedBy(j) == [f \in PostedBySelect |-> FindUserById(j.postedById)[f]]

\* GET: every job with postedBy: { email, userType }
JobsGetResult == { [job |-> j, postedBy |-> PostedBy(j)] : j \in jobs }

----------------------------------------------------------------------------
(* The job-post routes that resolve the caller with verifyToken *)

EmptyJobPostBody == [id |-> UndefinedNum, title |-> Undefined, description |-> Undefined]

JobPostExists(id) == \E j \in jobPosts : j.id = id

FindJobPost(id) == CHOOSE j \in jobPosts : j.id = id

JobPostsReject(user, status, error) ==
    [user |-> user, status |-> status, error |-> error,
     jobPosts |-> jobPosts, nextJobPostId |-> nextJobPostId]

\* !user || (user.userType !== "AGENT" && user.userType !== "UNIVERSITY")
NotPoster(user) ==
    user = NoActor \/ (user.userType # "AGENT" /\ user.userType # "UNIVERSITY")

JobPostsPostResult(header, body) ==
    LET user == verifyToken(HeaderToken(header)) IN
    IF NotPoster(user) THEN JobPostsReject(user, 403, "Unauthorized")
    ELSE IF Falsy(body.title) \/ Falsy(body.description)
    THEN JobPostsReject(user, 400, "Title and description are required")
    ELSE
      LET newJob == [id |-> nextJobPostId, title |-> body.title,
                     description |-> body.description, userId |-> user.userId]
      IN [user |-> user, status |-> 201, error |-> "",
          jobPosts |-> jobPosts \cup {newJob}, nextJobPostId |-> nextJobPostId + 1]

JobPostsPutResult(header, body) ==
    LET user == verifyToken(HeaderToken(header)) IN
    IF NotPoster(user) THEN JobPostsReject(user, 403, "Unauthorized")
    ELSE IF FalsyNum(body.id) \/ (Falsy(body.title) /\ Falsy(body.description))
    THEN JobPostsReject(user, 400, "Invalid update data")
    ELSE IF ~JobPostExists(body.id) \/ FindJobPost(body.id).userId # user.userId
    THEN JobPostsReject(user, 404, "Job not found or unauthorized")
    ELSE
      LET job == FindJobPost(body.id)
          updatedJob ==
              [job EXCEPT
                 !.title = IF body.title = Undefined THEN @ ELSE body.title,
                 !.description = IF body.description = Undefined THEN @
                                 ELSE body.description]
      IN [user |-> user, status |-> 200, error |-> "",
          jobPosts |-> (jobPosts \ {job}) \cup {updatedJob},
          nextJobPostId |-> nextJobPostId]

JobPostsDeleteResult(header, body) ==
    LET user == verifyToken(HeaderToken(header)) IN
    IF NotPoster(user) THEN JobPostsReject(user, 403, "Unauthorized")
    ELSE IF FalsyNum(body.id)
    THEN JobPostsReject(user, 400, "Job ID is required")
    ELSE IF ~JobPostExists(body.id) \/ FindJobPost(body.id).userId # user.userId
    THEN JobPostsReject(user, 404, "Job not found or unauthorized")
    ELSE [user |-> user, status |-> 200, error |-> "",
          jobPosts |-> jobPosts \ {FindJobPost(body.id)},
          nextJobPostId |-> nextJobPostId]

----------------------------------------------------------------------------
(* Requests the clients send *)

\* a token a caller signs itself, with the claims of its choice
Forge(userId, userType, key) ==
    JwtSign([userId |-> userId, email |-> "mallory@x", userType |-> userType],
            key, now)

\* the id of an AGENT, the id of a TRAINER, an id no registration has given out
ForgedIds == {1, 3, MaxUserId + 2}

CallerTokens ==
    {Forge(i, k, key) : i \in ForgedIds, k \in {"AGENT", "TRAINER"}, key \in CallerKeys}

\* every token a request can carry
AnyToken == issued \cup CallerTokens \cup {Garbage}

AnyHeader ==
    {NoHeader, <<"Bearer">>}
        \cup {<<"Bearer", t>> : t \in AnyToken}
        \cup {<<"Basic", t>> : t \in issued}

\* the headers the actions send
HeaderInputs ==
    {NoHeader}
        \cup {<<"Bearer", t>> :
                t \in issued \cup {Garbage, Forge(3, "AGENT", FallbackSecret)}}
        \cup {<<"Basic", t>> : t \in {x \in issued : x.userId = 1}}

FullJobBody ==
    [EmptyJobBody EXCEPT !.jobTitle = "Software Engineer", !.vacancies = 2,
                         !.location = "New York", !.durationHours = 40,
                         !.remuneration = 100000, !.contact = "jobs@example.com"]

UpdateJobBody ==
    [EmptyJobBody EXCEPT !.jobTitle = "Updated Math Teacher", !.vacancies = 3]

JobIds == 1..(MaxJobId + 1)
UserIds == 1..(MaxUserId + 1)

\* bodies of POST /api/jobs: complete, one field short, a zero, a foreign owner
JobsPostBodies ==
    {FullJobBody, [FullJobBody EXCEPT !.vacancies = 0]}
        \cup {[FullJobBody EXCEPT !.jobTitle = Undefined],
              [FullJobBody EXCEPT !.vacancies = UndefinedNum],
              [FullJobBody EXCEPT !.location = Undefined],
              [FullJobBody EXCEPT !.durationHours = UndefinedNum],
              [FullJobBody EXCEPT !.remuneration = UndefinedNum],
              [FullJobBody EXCEPT !.contact = Undefined]}
        \cup {[FullJobBody EXCEPT !.postedById = i] : i \in UserIds}

JobsPostInputs ==
    {FullJobBody, [FullJobBody EXCEPT !.contact = Undefined]}
        \cup {[FullJobBody EXCEPT !.postedById = i] : i \in {1}}

JobsPutBodies ==
    {[b EXCEPT !.id = i, !.postedById = o] :
        b \in {EmptyJobBody, UpdateJobBody, FullJobBody},
        i \in JobIds \cup {UndefinedNum},
        o \in {1, UndefinedNum}}

JobsPutInputs ==
    {[UpdateJobBody EXCEPT !.id = i] : i \in JobIds \cup {UndefinedNum}}

JobsDeleteBodies == {[EmptyJobBody EXCEPT !.id = i] : i \in JobIds \cup {UndefinedNum}}

JobPostBodies ==
    {[id |-> i, title |-> t, description |-> d] :
        i \in 1..(MaxJobPostId + 1) \cup {UndefinedNum},
        t \in {"Tutor", "Senior Tutor", Undefined},
        d \in {"Evening classes", Undefined}}

JobPostsPostInputs ==
    {b \in JobPostBodies :
        b.id = UndefinedNum /\ b.title # "Senior Tutor" /\ b.description # Undefined}

JobPostsPutInputs ==
    {b \in JobPostBodies : b.title = "Senior Tutor" /\ b.description = Undefined}

JobPostsDeleteInputs ==
    {b \in JobPostBodies : b.title = Undefined /\ b.description = Undefined}

----------------------------------------------------------------------------
(* State machine *)

NoRequest == [op |-> "none", status |-> 0, error |-> ""]

\* the register requests that can be in progress at once
Requests == {1, 2}

\* a register request that has not arrived
Idle == [pc |-> "idle", body |-> << >>, userId |-> 0, status |-> 0, error |-> ""]

\* a PUT or DELETE request that has not arrived
NotWriting ==
    [pc |-> "idle", method |-> "", userId |-> 0, body |-> EmptyJobBody,
     status |-> 0, error |-> "", gone |-> FALSE]

Init ==
    /\ envSecret \in {"", ConfiguredSecret}
    /\ now = 0
    /\ users = {}
    /\ universities = {}
    /\ agents = {}
    /\ trainers = {}
    /\ nextUserId = 1
    /\ jobs = {}
    /\ nextJobId = 1
    /\ jobPosts = {}
    /\ nextJobPostId = 1
    /\ issued = {}
    /\ registering = [p \in Requests |-> Idle]
    /\ writing = [p \in Requests |-> NotWriting]
    /\ resp = NoRequest

\* POST /api/auth/register
Register(body) ==
    LET r == RegisterResult(body) IN
    /\ r.nextUserId <= MaxUserId + 1
    /\ users' = r.users
    /\ universities' = r.universities
    /\ agents' = r.agents
    /\ trainers' = r.trainers
    /\ nextUserId' = r.nextUserId
    /\ resp' = [op |-> "register", status |-> r.status, error |-> r.error,
                username |-> body.username, email |-> body.email,
                password |-> body.password, userType |-> body.userType,
                expertise |-> body.additionalInfo.expertise,
                userId |-> r.userId, exposed |-> r.exposed]
    /\ UNCHANGED <<registering, writing, envSecret, now, jobVars, jobPostVars, issued>>

\* POST /api/auth/login
Login(body) ==
    LET r == LoginResult(body) IN
    /\ r.status = 200 => (r.token \in issued \/ Cardinality(issued) < MaxTokens)
    /\ issued' = IF r.status = 200 THEN issued \cup {r.token} ELSE issued
    /\ resp' = [op |-> "login", status |-> r.status, error |-> r.error,
                body |-> body, token |-> r.token, userId |-> r.userId,
                userType |-> r.userType, exposed |-> r.exposed,
                expertise |-> r.expertise]
    /\ UNCHANGED <<registering, writing, envSecret, now, userVars, jobVars, jobPostVars>>

\* POST /api/jobs
JobsPOST(header, body, foreignKeys) ==
    LET r == JobsPostResult(header, body, foreignKeys) IN
    /\ r.nextJobId <= MaxJobId + 1
    /\ jobs' = r.jobs
    /\ nextJobId' = r.nextJobId
    /\ resp' = [op |-> "jobsPOST", status |-> r.status, error |-> r.error,
                ran |-> r.ran, token |-> HeaderToken(header), id |-> r.job.id,
                owner |-> body.postedById]
    /\ UNCHANGED <<registering, writing, envSecret, now, userVars, jobPostVars, issued>>

\* GET /api/jobs
JobsGET ==
    /\ resp' = [op |-> "jobsGET", status |-> 200, error |-> "", list |-> JobsGetResult]
    /\ UNCHANGED <<registering, writing, envSecret, now, userVars, jobVars, jobPostVars, issued>>

\* PUT /api/jobs
JobsPUT(header, body) ==
    LET r == JobsPutResult(header, body) IN
    /\ jobs' = r.jobs
    /\ nextJobId' = r.nextJobId
    /\ resp' = [op |-> "jobsPUT", status |-> r.status, error |-> r.error,
                ran |-> r.ran, token |-> HeaderToken(header), id |-> body.id]
    /\ UNCHANGED <<registering, writing, envSecret, now, userVars, jobPostVars, issued>>

\* DELETE /api/jobs
JobsDELETE(header, body) ==
    LET r == JobsDeleteResult(header, body) IN
    /\ jobs' = r.jobs
    /\ nextJobId' = r.nextJobId
    /\ resp' = [op |-> "jobsDELETE", status |-> r.status, error |-> r.error,
                ran |-> r.ran, token |-> HeaderToken(header), id |-> body.id]
    /\ UNCHANGED <<registering, writing, envSecret, now, userVars, jobPostVars, issued>>

\* the job-post routes: POST, PUT, DELETE
JobPostsRequest(method, header, body) ==
    LET r == CASE method = "POST" -> JobPostsPostResult(header, body)
               [] method = "PUT" -> JobPostsPutResult(header, body)
               [] OTHER -> JobPostsDeleteResult(header, body)
    IN
    /\ r.nextJobPostId <= MaxJobPostId + 1
    /\ jobPosts' = r.jobPosts
    /\ nextJobPostId' = r.nextJobPostId
    /\ resp' = [op |-> "jobPosts" \o method, status |-> r.status, error |-> r.error,
                token |-> HeaderToken(header), id |-> body.id, user |-> r.user]
    /\ UNCHANGED <<registering, writing, envSecret, now, userVars, jobVars, issued>>

JobPostsPOST(header, body) == JobPostsRequest("POST", header, body)
JobPostsPUT(header, body) == JobPostsRequest("PUT", header, body)
JobPostsDELETE(header, body) == JobPostsRequest("DELETE", header, body)

\* the clock advances
TickSteps == {TokenLifetime - 1, TokenLifetime, TokenLifetime + 1}

TicksTaken == (now + TokenLifetime - 1) \div TokenLifetime

Tick(d) ==
    /\ TicksTaken < MaxTicks
    /\ now' = now + d
    /\ resp' = NoRequest
    /\ UNCHANGED <<registering, writing, envSecret, userVars, jobVars, jobPostVars, issued>>

\* an identity is deleted from the store, with the rows that refer to it
DeleteIdentity(id) ==
    /\ \E u \in users : u.id = id
    /\ users' = {u \in users : u.id # id}
    /\ universities' = universities \ RowsOf(universities, id)
    /\ agents' = agents \ RowsOf(agents, id)
    /\ trainers' = trainers \ RowsOf(trainers, id)
    /\ jobs' = {j \in jobs : j.postedById # id}
    /\ jobPosts' = {j \in jobPosts : j.userId # id}
    /\ resp' = NoRequest
    /\ UNCHANGED <<registering, writing, envSecret, now, nextUserId, nextJobId, nextJobPostId, issued>>

\* Accounts: registration and login, from the empty store
Next ==
    \/ \E body \in RegisterInputs : Register(body)
    \/ \E body \in LoginBodies : Login(body)

Spec == Init /\ [][Next]_vars

----------------------------------------------------------------------------
(* A store in which three accounts, one of each kind, registered and *)
(* logged in at time 0 *)

Alice == [id |-> 1, username |-> "alice", email |-> "alice@x",
          password |-> Hash("pw-alice"), userType |-> "AGENT"]
Bob == [id |-> 2, username |-> "bob", email |-> "bob@x",
        password |-> Hash("pw-bob"), userType |-> "UNIVERSITY"]
Carol == [id |-> 3, username |-> "carol", email |-> "carol@x",
          password |-> Hash("pw-carol"), userType |-> "TRAINER"]

TokenOf(user, secret, t) ==
    JwtSign([userId |-> user.id, email |-> user.email, userType |-> user.userType],
            secret, t)

InitPopulated ==
    /\ envSecret \in {"", ConfiguredSecret}
    /\ now = 0
    /\ users = {Alice, Bob, Carol}
    /\ universities = {UniversityRow(Bob.id, UniversityInfo)}
    /\ agents = {AgentRow(Alice.id, AgentInfo)}
    /\ trainers = {TrainerRow(Carol.id, TrainerInfo)}
    /\ nextUserId = 4
    /\ jobs = {}
    /\ nextJobId = 1
    /\ jobPosts = {}
    /\ nextJobPostId = 1
    /\ issued = {TokenOf(u, IF envSecret = "" THEN FallbackSecret ELSE envSecret, 0) :
                    u \in {Alice, Bob, Carol}}
    /\ registering = [p \in Requests |-> Idle]
    /\ writing = [p \in Requests |-> NotWriting]
    /\ resp = NoRequest

\* The jobs resource and the deletion of accounts
NextJobs ==
    \/ \E header \in HeaderInputs, body \in JobsPostInputs, fk \in BOOLEAN :
          JobsPOST(header, body, fk)
    \/ JobsGET
    \/ \E header \in HeaderInputs, body \in JobsPutInputs : JobsPUT(header, body)
    \/ \E header \in HeaderInputs, body \in JobsDeleteBodies : JobsDELETE(header, body)
    \/ \E u \in users : u.userType \in JobsAllowedTypes /\ DeleteIdentity(u.id)

SpecJobs == InitPopulated /\ [][NextJobs]_vars

\* The job-post routes and the deletion of accounts
NextPosts ==
    \/ \E header \in HeaderInputs, body \in JobPostsPostInputs :
          JobPostsPOST(header, body)
    \/ \E header \in HeaderInputs, body \in JobPostsPutInputs :
          JobPostsPUT(header, body)
    \/ \E header \in HeaderInputs, body \in JobPostsDeleteInputs :
          JobPostsDELETE(header, body)
    \/ \E u \in users : DeleteIdentity(u.id)

SpecPosts == InitPopulated /\ [][NextPosts]_vars

\* The clock, login, and requests through the gate and the resolver
NextClock ==
    \/ \E d \in TickSteps : Tick(d)
    \/ \E body \in LoginBodies : Login(body)
    \/ \E header \in HeaderInputs, body \in JobsDeleteBodies : JobsDELETE(header, body)
    \/ \E header \in HeaderInputs, body \in JobPostsDeleteInputs :
          JobPostsDELETE(header, body)

SpecClock == InitPopulated /\ [][NextClock]_vars

----------------------------------------------------------------------------
(* POST /api/auth/register, await by await.  Between two awaits of one
   request the store serves the other requests. *)

\* what the racing requests send: each its own username, any email
RaceBodies(p) ==
    UNION {{[username |-> IF p = 1 THEN "alice" ELSE "bob", email |-> e,
             password |-> "pw-alice", userType |-> k, additionalInfo |-> i] :
               e \in Emails, i \in {NoInfo, InfoFor(k)}} :
           k \in {"AGENT", "TRAINER"}}

\* the request answers and ends
Answer(p, status, error) ==
    [registering EXCEPT ![p].pc = "done", ![p].status = status, ![p].error = error]

\* the unique index on User.email, which findUnique({ where: { email } })
\* requires: user.create throws when the email is taken
EmailTaken(email) == \E u \in users : u.email = email

\* request.json() and the two validations
RegReceive(p, body) ==
    /\ registering[p].pc = "idle"
    /\ registering' =
          IF \/ Falsy(body.username) \/ Falsy(body.email)
             \/ Falsy(body.password) \/ Falsy(body.userType)
          THEN [Answer(p, 400, "Username, email, password, and userType are required")
                    EXCEPT ![p].body = body]
          ELSE IF body.userType \notin {"UNIVERSITY", "AGENT", "TRAINER"}
          THEN [Answer(p, 400, "Invalid user type") EXCEPT ![p].body = body]
          ELSE [registering EXCEPT ![p].pc = "findFirst", ![p].body = body]
    /\ UNCHANGED <<writing, envSecret, now, userVars, jobVars, jobPostVars, issued, resp>>

\* await prisma.user.findFirst({ where: { OR: [{ email }, { username }] } })
RegFindFirst(p) ==
    LET body == registering[p].body IN
    /\ registering[p].pc = "findFirst"
    /\ registering' =
          IF ExistingUser(body.email, body.username)
          THEN Answer(p, 400, "User with this email or username already exists")
          ELSE [registering EXCEPT ![p].pc = "createUser"]
    /\ UNCHANGED <<writing, envSecret, now, userVars, jobVars, jobPostVars, issued, resp>>

\* await bcrypt.hash(...); await prisma.user.create(...)
RegCreateUser(p) ==
    LET body == registering[p].body IN
    /\ registering[p].pc = "createUser"
    /\ nextUserId <= MaxUserId
    /\ IF EmailTaken(body.email)
       THEN /\ registering' = Answer(p, 500, "Internal server error")
            /\ UNCHANGED <<users, nextUserId>>
       ELSE /\ users' = users \cup {[id |-> nextUserId, username |-> body.username,
                                     email |-> body.email,
                                     password |-> Hash(body.password),
                                     userType |-> body.userType]}
            /\ nextUserId' = nextUserId + 1
            /\ registering' = [registering EXCEPT ![p].pc = "createProfile",
                                                  ![p].userId = nextUserId]
    /\ UNCHANGED <<writing, envSecret, now, universities, agents, trainers, jobVars,
                   jobPostVars, issued, resp>>

\* the switch on userType with its create, and the 201
RegCreateProfile(p) ==
    LET body == registering[p].body
        id == registering[p].userId
        info == body.additionalInfo
    IN
    /\ registering[p].pc = "createProfile"
    /\ IF ~info.present
       THEN /\ registering' = Answer(p, 500, "Internal server error")
            /\ UNCHANGED <<universities, agents, trainers>>
       ELSE /\ registering' = Answer(p, 201, "")
            /\ universities' = IF body.userType = "UNIVERSITY"
                               THEN universities \cup {UniversityRow(id, info)}
                               ELSE universities
            /\ agents' = IF body.userType = "AGENT"
                         THEN agents \cup {AgentRow(id, info)}
                         ELSE agents
            /\ trainers' = IF body.userType = "TRAINER"
                           THEN trainers \cup {TrainerRow(id, info)}
                           ELSE trainers
    /\ UNCHANGED <<writing, envSecret, now, users, nextUserId, jobVars, jobPostVars,
                   issued, resp>>

\* PUT and DELETE of /api/jobs, one action per await

\* the request answers and ends
WriteAnswer(p, status, error) ==
    [writing EXCEPT ![p].pc = "done", ![p].status = status, ![p].error = error]

\* the gate, request.json() and the check of id
JobReceive(p, method, header, body) ==
    LET gate == authMiddleware(JobsAllowedTypes, header)
        arrived == [writing EXCEPT ![p].method = method, ![p].body = body,
                                   ![p].userId = gate.user.userId]
    IN
    /\ writing[p].pc = "idle"
    /\ writing' =
          IF ~gate.pass
          THEN [arrived EXCEPT ![p].pc = "done", ![p].status = gate.status,
                               ![p].error = gate.error]
          ELSE IF FalsyNum(body.id)
          THEN [arrived EXCEPT ![p].pc = "done", ![p].status = 400,
                               ![p].error = "Job ID is required"]
          ELSE [arrived EXCEPT ![p].pc = "findUnique"]
    /\ UNCHANGED <<registering, envSecret, now, userVars, jobVars, jobPostVars,
                   issued, resp>>

\* await prisma.job.findUnique({ where: { id } }) and the ownership check
JobFindUnique(p) ==
    LET id == writing[p].body.id IN
    /\ writing[p].pc = "findUnique"
    /\ writing' =
          IF ~JobExists(id)
          THEN [WriteAnswer(p, 404, "Job not found or unauthorized")
                    EXCEPT ![p].gone = TRUE]
          ELSE IF FindJob(id).postedById # writing[p].userId
          THEN WriteAnswer(p, 404, "Job not found or unauthorized")
          ELSE [writing EXCEPT ![p].pc = "write"]
    /\ UNCHANGED <<registering, envSecret, now, userVars, jobVars, jobPostVars,
                   issued, resp>>

\* await prisma.job.update(...) or await prisma.job.delete(...): both throw
\* when no row has the id, and the catch answers 500
JobWrite(p) ==
    LET id == writing[p].body.id IN
    /\ writing[p].pc = "write"
    /\ IF ~JobExists(id)
       THEN /\ writing' = [WriteAnswer(p, 500, "Internal server error")
                              EXCEPT ![p].gone = TRUE]
            /\ UNCHANGED jobs
       ELSE /\ writing' = WriteAnswer(p, 200, "")
            /\ jobs' = IF writing[p].method = "PUT"
                       THEN (jobs \ {FindJob(id)})
                                \cup {UpdateJob(FindJob(id), writing[p].body)}
                       ELSE jobs \ {FindJob(id)}
    /\ UNCHANGED <<registering, envSecret, now, userVars, nextJobId, jobPostVars,
                   issued, resp>>

\* the kind of an identity is changed in the store, outside the routes
ChangeKind(id, userType) ==
    /\ \E u \in users : u.id = id /\ u.userType # userType
    /\ users' = {IF u.id = id THEN [u EXCEPT !.userType = userType] ELSE u : u \in users}
    /\ resp' = NoRequest
    /\ UNCHANGED <<writing, envSecret, now, universities, agents, trainers, nextUserId,
                   jobVars, jobPostVars, issued, registering>>

\* Issued tokens replayed after the store changed the kind of their subject
NextReplay ==
    \/ \E id \in {Alice.id, Carol.id}, k \in {"AGENT", "TRAINER"} : ChangeKind(id, k)
    \/ \E header \in HeaderInputs, body \in JobsPostInputs : JobsPOST(header, body, FALSE)
    \/ \E header \in HeaderInputs, body \in JobsPutInputs : JobsPUT(header, body)
    \/ \E header \in HeaderInputs, body \in JobPostsPostInputs :
          JobPostsPOST(header, body)

SpecReplay == InitPopulated /\ [][NextReplay]_vars

\* The gated routes of /api/jobs over a store that nothing else changes
NextGate ==
    \/ \E header \in HeaderInputs, body \in JobsPostInputs : JobsPOST(header, body, FALSE)
    \/ \E header \in HeaderInputs, body \in JobsPutInputs : JobsPUT(header, body)
    \/ \E header \in HeaderInputs, body \in JobsDeleteBodies : JobsDELETE(header, body)

SpecGate == InitPopulated /\ [][NextGate]_vars

\* the strings a caller can give as one expertise: a word, a word with a comma
\* in it, the empty string
ExpertiseWords == {<<"a">>, <<"a", ",", "b">>, << >>}

\* arrays of at most two expertise strings
ExpertiseInputs ==
    {<< >>} \cup {<<w>> : w \in ExpertiseWords}
        \cup {<<w1, w2>> : w1, w2 \in ExpertiseWords}

\* TRAINER registrations with these arrays
ExpertiseBodies ==
    {[username |-> "alice", email |-> "alice@x", password |-> PasswordOf("alice"),
      userType |-> "TRAINER",
      additionalInfo |-> [TrainerInfo EXCEPT !.expertise = e]] :
        e \in ExpertiseInputs}

\* Registration of trainers and their logins
NextExpertise ==
    \/ \E body \in ExpertiseBodies : Register(body)
    \/ \E body \in LoginBodies : Login(body)

SpecExpertise == Init /\ [][NextExpertise]_vars

\* Two register requests served concurrently
NextRace ==
    \/ \E p \in Requests : \E body \in RaceBodies(p) : RegReceive(p, body)
    \/ \E p \in Requests : RegFindFirst(p)
    \/ \E p \in Requests : RegCreateUser(p)
    \/ \E p \in Requests : RegCreateProfile(p)

SpecRace == Init /\ [][NextRace]_vars

----------------------------------------------------------------------------
(* Properties *)

JobsOps == {"jobsPOST", "jobsPUT", "jobsDELETE"}

\* C1: right after a successful registration (201), login with the email and
\* password of that registration answers 200 with a token, and both the
\* resolver (verifyToken) and the gate recover from that token the kind that
\* was given at registration.
C1_RegisterThenLogin ==
    (resp.op = "register" /\ resp.status = 201) =>
        LET r == LoginResult([email |-> resp.email, password |-> resp.password])
            gate == authMiddleware({}, <<"Bearer", r.token>>)
        IN /\ r.status = 200
           /\ r.token.form = "jwt"
           /\ verifyToken(r.token).userType = resp.userType
           /\ gate.pass
           /\ gate.user.userType = resp.userType

\* a login of a registered identity has answered 200 with a token that
\* resolves to the identity's kind
C1_Witness ==
    /\ resp.op = "login"
    /\ resp.status = 200
    /\ \E u \in users :
          /\ u.id = resp.userId
          /\ u.email = resp.body.email
          /\ u.userType = "UNIVERSITY"
          /\ verifyToken(resp.token).userType = u.userType
          /\ authMiddleware({}, <<"Bearer", resp.token>>).user.userType = u.userType

\* the fields a registration must carry are there, and the kind is one of the three
WellFormed(body) ==
    /\ ~Falsy(body.username) /\ ~Falsy(body.email) /\ ~Falsy(body.password)
    /\ body.userType \in UserTypes

\* the registration leaves every table as it is
NothingCreated(r) ==
    /\ r.users = users
    /\ r.universities = universities
    /\ r.agents = agents
    /\ r.trainers = trainers
    /\ r.nextUserId = nextUserId

\* C10: a well-formed registration whose email is held by an identity with
\* another username, or whose username is held by an identity with another
\* email, is answered 400 with the duplicate error and creates no identity and
\* no extension record; the email-only handler answers a held email the same way.
C10_DuplicateRejected ==
    \A body \in RegisterBodies :
        /\ (/\ WellFormed(body)
            /\ \E u \in users :
                  \/ u.email = body.email /\ u.username # body.username
                  \/ u.username = body.username /\ u.email # body.email)
           => LET r == RegisterResult(body)
              IN /\ r.status = 400
                 /\ r.error = "User with this email or username already exists"
                 /\ NothingCreated(r)
        /\ (/\ WellFormed(body)
            /\ \E u \in users : u.email = body.email)
           => LET r == RegisterEmailOnlyResult(body)
              IN /\ r.status = 400
                 /\ r.error = "User already exists"
                 /\ NothingCreated(r)

\* a registration that reused bob's username under a new email was refused
C10_Witness ==
    /\ resp.op = "register"
    /\ resp.status = 400
    /\ resp.error = "User with this email or username already exists"
    /\ \E u \in users : u.username = resp.username /\ u.email # resp.email
    /\ \A u \in users : u.email # resp.email

----------------------------------------------------------------------------
(* The gate in front of the jobs handlers *)

\* the results of the gated requests that carry this header: POST, PUT and
\* DELETE, each with the bodies it is sent
JobsResults(header) ==
    {JobsPostResult(header, body, fk) : body \in JobsPostInputs, fk \in BOOLEAN}
        \cup {JobsPutResult(header, body) : body \in JobsPutInputs}
        \cup {JobsDeleteResult(header, body) : body \in JobsDeleteBodies}

\* the header carries a Bearer token that verifies now
Verified(header) ==
    StartsWithBearer(header) /\ JwtVerifies(HeaderToken(header), JWT_SECRET, now)

\* C2: a gated jobs request (POST, PUT, DELETE) runs its handler only if the
\* header carries a Bearer token, the token verifies and its kind is AGENT or
\* UNIVERSITY; every other request is answered 401 or 403 by the gate, the
\* handler does not run, and jobs and identities stay as they are.
C2_GateInv ==
    \A header \in AnyHeader :
        \A r \in JobsResults(header) :
            LET allowed == /\ Verified(header)
                           /\ HeaderToken(header).userType \in {"AGENT", "UNIVERSITY"}
            IN /\ r.ran <=> allowed
               /\ ~allowed => /\ r.status \in {401, 403}
                              /\ r.jobs = jobs
                              /\ r.nextJobId = nextJobId

C2_GateStep ==
    (resp'.op \in JobsOps /\ ~resp'.ran) =>
        /\ resp'.status \in {401, 403}
        /\ UNCHANGED <<userVars, jobVars, jobPostVars>>

C2_GateRejectsBeforeHandler == [](C2_GateInv) /\ [][C2_GateStep]_vars

\* the gate refused carol's TRAINER token on a PUT for a job that exists,
\* and the job is still there
C2_Witness ==
    /\ resp.op = "jobsPUT"
    /\ ~resp.ran
    /\ resp.status = 403
    /\ resp.token \in issued
    /\ JobExists(resp.id)

\* C3: a jobs POST, PUT or DELETE with a verifying token of kind TRAINER is
\* answered 403 Forbidden and leaves the jobs as they are; a verifying token
\* of kind AGENT or UNIVERSITY passes the gate's kind check.
C3_TrainerForbidden ==
    \A header \in AnyHeader :
        Verified(header) =>
            /\ HeaderToken(header).userType = "TRAINER" =>
                  \A r \in JobsResults(header) :
                      /\ r.status = 403
                      /\ r.error = "Forbidden"
                      /\ ~r.ran
                      /\ r.jobs = jobs
            /\ HeaderToken(header).userType \in {"AGENT", "UNIVERSITY"} =>
                  /\ authMiddleware(JobsAllowedTypes, header).pass
                  /\ \A r \in JobsResults(header) : r.ran /\ r.status # 403

\* carol, a TRAINER, sent her login token with a POST and got 403
C3_Witness ==
    /\ resp.op = "jobsPOST"
    /\ resp.status = 403
    /\ resp.error = "Forbidden"
    /\ resp.token \in issued
    /\ resp.token.userType = "TRAINER"
    /\ Carol \in users

\* C4: a job created by POST is owned by the userId of the request's token,
\* whatever postedById the body carries.
C4_OwnerFromToken ==
    /\ \A header \in AnyHeader :
          authMiddleware(JobsAllowedTypes, header).pass =>
              \A body \in JobsPostBodies, fk \in BOOLEAN :
                  LET r == JobsPostResult(header, body, fk) IN
                  r.status = 201 =>
                      /\ r.job.postedById = HeaderToken(header).userId
                      /\ r.jobs = jobs \cup {r.job}
                      /\ r.job.id = nextJobId
    /\ (resp.op = "jobsPOST" /\ resp.status = 201) =>
          \E j \in jobs : j.id = resp.id /\ j.postedById = resp.token.userId

\* bob created a job with a body that names alice as the owner; the job is bob's
C4_Witness ==
    /\ resp.op = "jobsPOST"
    /\ resp.status = 201
    /\ resp.owner = Alice.id
    /\ resp.token.userId = Bob.id
    /\ \E j \in jobs : j.id = resp.id /\ j.postedById = Bob.id

\* C5: a PUT or DELETE for a job that exists and belongs to another identity
\* gets the response (status and error body) that the same request gets for
\* an id no job has, 404 "Job not found or unauthorized", and leaves the jobs
\* as they are.
C5_NonOwnerSeesNotFound ==
    \A header \in AnyHeader :
        LET gate == authMiddleware(JobsAllowedTypes, header) IN
        gate.pass =>
            \A body \in JobsPutBodies :
                LET missing == [body EXCEPT !.id = nextJobId] IN
                (/\ JobExists(body.id)
                 /\ FindJob(body.id).postedById # gate.user.userId)
                => \A pair \in {<<JobsPutResult(header, body),
                                   JobsPutResult(header, missing)>>,
                                 <<JobsDeleteResult(header, body),
                                   JobsDeleteResult(header, missing)>>} :
                       /\ pair[1].status = 404
                       /\ pair[1].error = "Job not found or unauthorized"
                       /\ pair[1].status = pair[2].status
                       /\ pair[1].error = pair[2].error
                       /\ pair[1].job = pair[2].job
                       /\ pair[1].jobs = jobs

\* bob, of an allowed kind, asked to delete alice's job and got 404; the job
\* is still there
C5_Witness ==
    /\ resp.op = "jobsDELETE"
    /\ resp.status = 404
    /\ resp.token \in issued
    /\ resp.token.userId = Bob.id
    /\ JobExists(resp.id)
    /\ FindJob(resp.id).postedById = Alice.id

----------------------------------------------------------------------------
(* Tokens whose subject has left the store *)

\* the token verifies now and no identity in the store has its userId
Stale(token) ==
    /\ token.form = "jwt"
    /\ JwtVerifies(token, JWT_SECRET, now)
    /\ FindUserById(token.userId) = NoUser

\* C6: verifyToken returns null for a token whose signature and expiry are
\* valid and whose subject is no longer in the store; the job-post routes
\* built on it answer 403 and leave the job posts as they are.
C6_StaleTokenResolvesToNull ==
    /\ \A t \in AnyToken :
          Stale(t) =>
              /\ verifyToken(t) = NoActor
              /\ \A body \in JobPostBodies :
                    \A r \in {JobPostsPostResult(<<"Bearer", t>>, body),
                              JobPostsPutResult(<<"Bearer", t>>, body),
                              JobPostsDeleteResult(<<"Bearer", t>>, body)} :
                        r.status = 403 /\ r.jobPosts = jobPosts
    /\ (resp.op \in {"jobPostsPOST", "jobPostsPUT", "jobPostsDELETE"}
            /\ Stale(resp.token)) => resp.user = NoActor

\* alice logged in and was deleted; her unexpired token then came with a POST
\* to the job-post route and resolved to null
C6_Witness ==
    /\ resp.op = "jobPostsPOST"
    /\ resp.token \in issued
    /\ resp.token.userId = Alice.id
    /\ Stale(resp.token)
    /\ resp.user = NoActor
    /\ resp.status = 403

\* C7: a gated jobs request whose token login issued, of an allowed kind,
\* verifying now, and whose subject is no longer in the store, is answered 401
\* and its handler does not run.
C7_GateRejectsStaleToken ==
    (/\ resp.op \in JobsOps
     /\ resp.token \in issued
     /\ resp.token.userType \in JobsAllowedTypes
     /\ Stale(resp.token))
    => (resp.status = 401 /\ ~resp.ran)

\* alice was deleted; her token, still unexpired, came with a POST to
\* /api/jobs, the handler ran and created a job owned by an id no identity has
C7_Witness ==
    /\ resp.op = "jobsPOST"
    /\ resp.token \in issued
    /\ resp.token.userId = Alice.id
    /\ Stale(resp.token)
    /\ resp.ran
    /\ resp.status = 201
    /\ \E j \in jobs : j.postedById = Alice.id

----------------------------------------------------------------------------
(* Expiry and origin of accepted tokens *)

\* the gate of a route open to every kind
OpenGate(token) == authMiddleware(UserTypes, <<"Bearer", token>>)

\* C8: a token login issued at time t is accepted at time u exactly when
\* u < t + 24h: accepted 23:59:59 after issuance, refused with 401
\* "Invalid token" at 24:00:00 and at 24:00:01; the resolver returns null from
\* 24:00:00 on.
C8_ExpiresAfter24h ==
    \A t \in issued :
        LET age == now - t.iat
            fresh == age < 24 * 60 * 60
        IN /\ OpenGate(t).pass <=> fresh
           /\ ~fresh => OpenGate(t).status = 401 /\ OpenGate(t).error = "Invalid token"
           /\ (verifyToken(t) # NoActor) <=> fresh
           /\ age = 24 * 60 * 60 - 1 => OpenGate(t).pass
           /\ age \in {24 * 60 * 60, 24 * 60 * 60 + 1} => ~OpenGate(t).pass
           /\ (resp.op = "jobsDELETE" /\ resp.token = t /\ ~fresh) =>
                 (~resp.ran /\ resp.status = 401)

\* exactly 24 hours after login issued it, alice's token came with a DELETE and
\* the gate answered 401 "Invalid token"
C8_Witness ==
    /\ resp.op = "jobsDELETE"
    /\ resp.token \in issued
    /\ resp.token.userId = Alice.id
    /\ now = resp.token.iat + 24 * 60 * 60
    /\ resp.status = 401
    /\ resp.error = "Invalid token"
    /\ ~resp.ran

\* C9: a token the gate or the resolver accepts was issued by a successful
\* login, and the claims recovered from it are the id, email and kind of an
\* identity.
C9_AcceptedWasIssued ==
    (\/ resp.op = "jobsDELETE" /\ resp.ran
     \/ resp.op = "jobPostsDELETE" /\ resp.user # NoActor)
    => /\ resp.token \in issued
       /\ \E u \in users : /\ u.id = resp.token.userId
                           /\ u.email = resp.token.email
                           /\ u.userType = resp.token.userType

\* JWT_SECRET is unset; a token a caller signed with the fallback secret,
\* which login never issued, passed the gate and the handler ran
C9_Witness ==
    /\ envSecret = ""
    /\ resp.op = "jobsDELETE"
    /\ resp.ran
    /\ resp.token \notin issued
    /\ resp.token.key = FallbackSecret

\* with JWT_SECRET set in the environment, what the gate and the resolver
\* accept is what login issued; garbage and foreign signatures are refused
C9_HoldsWithConfiguredSecret ==
    envSecret # "" =>
        \A t \in AnyToken :
            (OpenGate(t).pass \/ verifyToken(t) # NoActor) =>
                /\ t \in issued
                /\ \E u \in users : /\ u.id = t.userId
                                    /\ u.email = t.email
                                    /\ u.userType = t.userType

----------------------------------------------------------------------------
(* Concurrent registrations and the profile of every identity *)

\* both requests have answered, and they carried the same email
RacedOnEmail ==
    /\ \A p \in Requests : registering[p].pc = "done"
    /\ registering[1].body.email = registering[2].body.email

\* C11: of two register requests with the same email served concurrently, at
\* most one answers 201 and then the other answers the duplicate error (400
\* "User with this email or username already exists"); no two identities in
\* the store share an email.
C11_RaceOneWinsOtherConflict ==
    /\ \A u, v \in users : u.email = v.email => u = v
    /\ RacedOnEmail =>
          \A p, q \in Requests :
              (p # q /\ registering[p].status = 201) =>
                  /\ registering[q].status = 400
                  /\ registering[q].error =
                        "User with this email or username already exists"

\* both requests passed findFirst before either created its user; one
\* answered 201, the other hit the unique index and answered 500
C11_Witness ==
    /\ RacedOnEmail
    /\ registering[1].status = 201
    /\ registering[2].status = 500
    /\ registering[2].body.additionalInfo.present
    /\ Cardinality(users) = 1

\* the rows of the three profile tables that belong to this id
ProfilesOf(id) ==
    [UNIVERSITY |-> RowsOf(universities, id), AGENT |-> RowsOf(agents, id),
     TRAINER |-> RowsOf(trainers, id)]

\* C13: in every state of the store, between the awaits of a running
\* registration too, every identity has exactly one profile row, in the table
\* of its kind, and every profile row belongs to an identity.
C13_OneProfilePerIdentity ==
    /\ \A u \in users :
          \A k \in UserTypes :
              Cardinality(ProfilesOf(u.id)[k]) = IF k = u.userType THEN 1 ELSE 0
    /\ \A row \in universities \cup agents \cup trainers :
          \E u \in users : u.id = row.userId

\* a registration without additionalInfo has answered 500 and nothing is
\* running; its identity is in the store without a profile
C13_Witness ==
    /\ \A p \in Requests : registering[p].pc \in {"idle", "done"}
    /\ \E p \in Requests :
          /\ registering[p].status = 500
          /\ \E u \in users :
                /\ u.id = registering[p].userId
                /\ ProfilesOf(u.id)[u.userType] = {}

\* C12: a register request that does not answer 201 leaves the identities as
\* they were.
C12_FailedRegisterLeavesNoIdentity ==
    [][(resp'.op = "register" /\ resp'.status # 201) => users' = users]_vars

\* a TRAINER registration without additionalInfo answered 500, and the
\* identity it created is in the store, without a profile
C12_Witness ==
    /\ resp.op = "register"
    /\ resp.status = 500
    /\ resp.userType = "TRAINER"
    /\ \E u \in users :
          /\ u.username = resp.username
          /\ u.email = resp.email
          /\ ProfilesOf(u.id)[u.userType] = {}

----------------------------------------------------------------------------
(* Login failures *)

\* no identity has the email of this login body
UnknownEmail(body) == ~Falsy(body.email) /\ FindUserByEmail(body.email) = NoUser

\* an identity has the email, and the password is not that identity's
WrongPassword(body) ==
    /\ ~Falsy(body.password)
    /\ FindUserByEmail(body.email) # NoUser
    /\ ~Compare(body.password, FindUserByEmail(body.email).password)

\* email and password are those of an identity
CredentialsVerify(body) ==
    /\ FindUserByEmail(body.email) # NoUser
    /\ Compare(body.password, FindUserByEmail(body.email).password)

\* C14: login with an unknown email and login with a known email and a wrong
\* password get the same response, 401 "Invalid credentials", and no token.
C14_SameRefusal ==
    \A b1, b2 \in LoginBodies :
        (~Falsy(b1.password) /\ UnknownEmail(b1) /\ WrongPassword(b2)) =>
            /\ LoginResult(b1) = LoginResult(b2)
            /\ LoginResult(b1).status = 401
            /\ LoginResult(b1).error = "Invalid credentials"
            /\ LoginResult(b1).token = NoToken

\* alice is registered and bob is not; a login with alice's email and a wrong
\* password was refused while bob's email is unknown
C14_Witness ==
    /\ resp.op = "login"
    /\ resp.status = 401
    /\ WrongPassword(resp.body)
    /\ \E b \in LoginBodies : ~Falsy(b.password) /\ UnknownEmail(b)

\* the identity of this login body has no row in the table of its kind
ProfileMissing(body) ==
    LET user == FindUserByEmail(body.email) IN
    RowsOf(TableOf(user.userType), user.id) = {}

\* C19: when email and password verify and the identity has no profile row,
\* login answers 500, not 400 or 401, and issues no token.
C19_MissingProfileIs500 ==
    /\ \A body \in LoginBodies :
          (CredentialsVerify(body) /\ ProfileMissing(body)) =>
              /\ LoginResult(body).status = 500
              /\ LoginResult(body).error = "Internal server error"
              /\ LoginResult(body).token = NoToken
    /\ (resp.op = "login" /\ CredentialsVerify(resp.body) /\ ProfileMissing(resp.body))
          => (resp.status = 500 /\ resp.token = NoToken)

\* an identity left without a profile logged in with its own password and got
\* 500
C19_Witness ==
    /\ resp.op = "login"
    /\ CredentialsVerify(resp.body)
    /\ ProfileMissing(resp.body)
    /\ resp.status = 500
    /\ resp.token \notin issued

----------------------------------------------------------------------------
(* Whose word the authorization takes *)

\* the kind the store has for the subject of this token
StoredKind(token) == FindUserById(token.userId).userType

\* the token is one login issued, it verifies now, its subject is in the
\* store, and the store has another kind for the subject than the token
Outdated(token) ==
    /\ token \in issued
    /\ JwtVerifies(token, JWT_SECRET, now)
    /\ FindUserById(token.userId) # NoUser
    /\ StoredKind(token) # token.userType

\* C16: a request that replays an issued, unexpired token whose subject has
\* another kind in the store than in the token is authorized by the stored
\* kind: the resolver returns the stored kind, and the gate of /api/jobs runs
\* the handler exactly when the stored kind is AGENT or UNIVERSITY.
C16_AuthorizedByStoredKind ==
    /\ \A t \in issued :
          Outdated(t) => verifyToken(t).userType = StoredKind(t)
    /\ (resp.op \in JobsOps /\ Outdated(resp.token)) =>
          (resp.ran <=> StoredKind(resp.token) \in JobsAllowedTypes)

\* alice's token says AGENT, the store now says TRAINER; her POST to
\* /api/jobs passed the gate and created a job
C16_Witness ==
    /\ resp.op = "jobsPOST"
    /\ Outdated(resp.token)
    /\ resp.token.userId = Alice.id
    /\ StoredKind(resp.token) = "TRAINER"
    /\ resp.ran
    /\ resp.status = 201

\* the resolver's half holds: what verifyToken returns for an outdated token
\* is the store's record, and the job-post route decides by it
C16_ResolverReadsStore ==
    /\ \A t \in issued :
          Outdated(t) =>
              /\ verifyToken(t).userType = StoredKind(t)
              /\ verifyToken(t).email = FindUserById(t.userId).email
    /\ (resp.op = "jobPostsPOST" /\ Outdated(resp.token)) =>
          (resp.status = 403 <=> StoredKind(resp.token) \notin {"AGENT", "UNIVERSITY"})

----------------------------------------------------------------------------
(* What the gate looks at *)

\* the body with no postedById in it
Unasserted(body) == [body EXCEPT !.postedById = UndefinedNum]

\* C15: the decision of the gate and the actor the handler works with depend
\* on the Authorization header alone: for one header every body gets the
\* same decision, and a body that asserts an owner or user id gets the
\* response of the same body without the assertion.
C15_BodyDoesNotSteerGate ==
    \A header \in AnyHeader :
        LET gate == authMiddleware(JobsAllowedTypes, header) IN
        /\ \A body \in JobsPutBodies :
              /\ JobsPutResult(header, body).ran = gate.pass
              /\ JobsDeleteResult(header, body).ran = gate.pass
        /\ \A body \in JobsPostBodies :
              JobsPostResult(header, body, FALSE).ran = gate.pass
        /\ gate.pass =>
              /\ gate.user = JwtDecoded(HeaderToken(header))
              /\ \A body \in JobsPutBodies :
                    /\ JobsPutResult(header, body) = JobsPutResult(header, Unasserted(body))
                    /\ JobsDeleteResult(header, body)
                          = JobsDeleteResult(header, Unasserted(body))
              /\ \A body \in JobsPostBodies :
                    JobsPostResult(header, body, FALSE)
                        = JobsPostResult(header, Unasserted(body), FALSE)

\* carol, a TRAINER, sent a POST whose body names alice, an AGENT, as the
\* owner; the gate refused it as it refuses her other requests
C15_Witness ==
    /\ resp.op = "jobsPOST"
    /\ resp.token \in issued
    /\ resp.token.userId = Carol.id
    /\ resp.token.userType = "TRAINER"
    /\ resp.owner = Alice.id
    /\ ~resp.ran
    /\ resp.status = 403

\* the allow-lists the gate is given: none, that of /api/jobs, one kind
AllowLists == {{}, JobsAllowedTypes, {"TRAINER"}}

\* C17: the gate checks header, token, kind, in this order, and the first
\* check that fails decides the response: no header or no "Bearer " prefix
\* gives 401 "Unauthorized"; a token that does not verify gives 401 "Invalid
\* token"; a verified kind outside a non-empty allow-list gives 403
\* "Forbidden"; an empty allow-list admits every kind.
C17_GateOrder ==
    /\ \A header \in AnyHeader, allowedTypes \in AllowLists :
          LET gate == authMiddleware(allowedTypes, header)
              token == HeaderToken(header)
          IN IF header = NoHeader \/ ~StartsWithBearer(header)
             THEN ~gate.pass /\ gate.status = 401 /\ gate.error = "Unauthorized"
             ELSE IF ~JwtVerifies(token, JWT_SECRET, now)
             THEN ~gate.pass /\ gate.status = 401 /\ gate.error = "Invalid token"
             ELSE IF allowedTypes # {} /\ token.userType \notin allowedTypes
             THEN ~gate.pass /\ gate.status = 403 /\ gate.error = "Forbidden"
             ELSE gate.pass
    /\ (resp.op \in JobsOps /\ ~resp.ran) =>
          \/ resp.status = 401 /\ resp.error \in {"Unauthorized", "Invalid token"}
          \/ /\ resp.status = 403 /\ resp.error = "Forbidden"
             /\ JwtVerifies(resp.token, JWT_SECRET, now)

\* a Bearer token that does not verify got 401 "Invalid token" from the gate
\* of /api/jobs
C17_Witness ==
    /\ resp.op = "jobsPUT"
    /\ resp.token.form # "undefined"
    /\ ~JwtVerifies(resp.token, JWT_SECRET, now)
    /\ resp.status = 401
    /\ resp.error = "Invalid token"
    /\ ~resp.ran

----------------------------------------------------------------------------
(* The expertise of a trainer, written and read back *)

\* the login of the identity that the last request registered
LoginAfterRegister ==
    LoginResult([email |-> resp.email, password |-> resp.password])

\* C18: for every array of expertise strings given at a TRAINER registration,
\* the store holds the strings joined by "," and the login that follows
\* returns the array that was registered.
C18_ExpertiseRoundTrip ==
    (resp.op = "register" /\ resp.status = 201 /\ resp.userType = "TRAINER") =>
        /\ \E row \in trainers :
              /\ row.userId = resp.userId
              /\ row.expertise = Join(resp.expertise, Comma)
        /\ LoginAfterRegister.status = 200
        /\ LoginAfterRegister.expertise = resp.expertise

\* a trainer registered with the one expertise "a,b"; the login that follows
\* returns the two strings "a" and "b"
C18_Witness ==
    /\ resp.op = "register"
    /\ resp.status = 201
    /\ resp.expertise = <<(<<"a", ",", "b">>)>>
    /\ LoginAfterRegister.status = 200
    /\ LoginAfterRegister.expertise = <<(<<"a">>), (<<"b">>)>>

\* for arrays that are not empty and whose strings hold no comma the
\* registered array is what login returns
C18_RoundTripWithoutCommas ==
    (/\ resp.op = "register" /\ resp.status = 201 /\ resp.userType = "TRAINER"
     /\ resp.expertise # << >>
     /\ \A i \in 1..Len(resp.expertise) :
           \A j \in 1..Len(resp.expertise[i]) : resp.expertise[i][j] # ",")
    => LoginAfterRegister.expertise = resp.expertise

----------------------------------------------------------------------------
(* The signing secret *)

\* C20: when JWT_SECRET is not set in the environment, login issues no token
\* and the gate and the resolver accept none.
C20_NoSecretNoTokens ==
    envSecret = "" =>
        /\ resp.op = "login" => resp.status # 200
        /\ resp.op = "jobsDELETE" => ~resp.ran
        /\ resp.op = "jobPostsDELETE" => resp.user = NoActor

\* JWT_SECRET is not set; login answered 200 with a token signed with
\* "fallback_jwt_secret", and the gate and the resolver accept that token
C20_Witness ==
    /\ envSecret = ""
    /\ resp.op = "login"
    /\ resp.status = 200
    /\ resp.token.key = FallbackSecret
    /\ OpenGate(resp.token).pass
    /\ verifyToken(resp.token) # NoActor

----------------------------------------------------------------------------
\* GET /api/jobs

\* C21: the list handler takes no request and so no token, answers 200 with
\* one entry per posting in the store, and shows of each owner exactly the
\* email and the kind: no password hash, no username, no profile row.
C21_ListShowsEmailAndKind ==
    resp.op = "jobsGET" =>
        /\ resp.status = 200
        /\ {e.job : e \in resp.list} = jobs
        /\ \A e \in resp.list :
              /\ DOMAIN e.postedBy = {"email", "userType"}
              /\ e.postedBy.email = FindUserById(e.job.postedById).email
              /\ e.postedBy.userType = FindUserById(e.job.postedById).userType
              /\ {"password", "username", "id"} \cap DOMAIN e.postedBy = {}

C21_Witness ==
    /\ resp.op = "jobsGET"
    /\ \E e \in resp.list : e.postedBy.email = Alice.email /\ e.postedBy.userType = "AGENT"

----------------------------------------------------------------------------
\* Numeric fields of the profile rows

\* z.number().min(1000).max(new Date().getFullYear()) of the form's schema
MinYear == 1000
CurrentYear == 2026

\* a number below zero that a body can carry
Negative == -5

\* additionalInfo whose numbers are inside and outside the form's ranges
BoundsInfos ==
    {[UniversityInfo EXCEPT !.establishedYear = y] :
        y \in {MinYear - 1, 1900, CurrentYear + 1}}
      \cup {[AgentInfo EXCEPT !.yearsExperience = y] : y \in {Negative, 5}}
      \cup {[TrainerInfo EXCEPT !.availableHours = h, !.hourlyRate = r] :
              h \in {Negative, 20}, r \in {Negative, 50}}

KindOfInfo(info) ==
    CASE info.name # Undefined -> "UNIVERSITY"
      [] info.agencyName # Undefined -> "AGENT"
      [] OTHER -> "TRAINER"

\* registrations of alice and bob with these additionalInfo
BoundsBodies ==
    {[username |-> n, email |-> n \o "@x", password |-> PasswordOf(n),
      userType |-> KindOfInfo(i), additionalInfo |-> i] :
        n \in {"alice", "bob"}, i \in BoundsInfos}

NextBounds == \E body \in BoundsBodies : Register(body)

SpecBounds == Init /\ [][NextBounds]_vars

\* the ranges the data model gives the numbers of additionalInfo
InBounds(userType, info) ==
    CASE userType = "UNIVERSITY" ->
            info.establishedYear >= MinYear /\ info.establishedYear <= CurrentYear
      [] userType = "AGENT" -> info.yearsExperience >= 0
      [] userType = "TRAINER" -> info.availableHours >= 0 /\ info.hourlyRate >= 0
      [] OTHER -> TRUE

\* C22: every profile row in the store has establishedYear between 1000 and
\* the current year, and yearsExperience, availableHours and hourlyRate not
\* below zero; a registration whose additionalInfo breaks a range is not
\* answered 201 and leaves no row.
C22_ProfileBounds ==
    /\ \A row \in universities : InBounds("UNIVERSITY", row)
    /\ \A row \in agents : InBounds("AGENT", row)
    /\ \A row \in trainers : InBounds("TRAINER", row)
    /\ (resp.op = "register" /\ resp.status = 201) =>
          \A row \in RowsOf(TableOf(resp.userType), resp.userId) :
              InBounds(resp.userType, row)

\* a university founded in 999 is in the store after its registration got 201
C22_Witness ==
    /\ resp.op = "register"
    /\ resp.status = 201
    /\ resp.userType = "UNIVERSITY"
    /\ \E row \in universities :
          row.userId = resp.userId /\ row.establishedYear = MinYear - 1

----------------------------------------------------------------------------
\* Ownership of postings over time

\* what one step may do to the postings that exist before it
C23_Step ==
    \A j \in jobs :
        /\ \A k \in jobs' : k.id = j.id => k.postedById = j.postedById
        /\ j \notin jobs' =>
              /\ resp'.op \in {"jobsPUT", "jobsDELETE"}
              /\ resp'.status = 200
              /\ resp'.id = j.id
              /\ resp'.token.form = "jwt"
              /\ resp'.token.userId = j.postedById

\* C23: over any sequence of requests to /api/jobs a posting keeps the owner
\* it was created with, and a posting changes or disappears only in the step
\* of a PUT or DELETE for its id whose token names its owner as the subject.
C23_OwnerFixedAndOnlyOwnerWrites == [][C23_Step]_vars

\* alice's posting after alice updated it and before that step bob, whose
\* token is as valid, could not
C23_Witness ==
    /\ resp.op = "jobsPUT"
    /\ resp.status = 200
    /\ resp.token.userId = Alice.id
    /\ \E j \in jobs :
          /\ j.id = resp.id
          /\ j.postedById = Alice.id
          /\ j.jobTitle = UpdateJobBody.jobTitle

----------------------------------------------------------------------------
\* PUT and DELETE of one posting at the same time

\* the tokens login handed out, each in a Bearer header
IssuedHeaders == {<<"Bearer", t>> : t \in issued}

\* a posting is created; two requests, each a PUT or a DELETE for posting 1,
\* run await by await
NextWriteRace ==
    \/ \E header \in IssuedHeaders : JobsPOST(header, FullJobBody, FALSE)
    \/ \E p \in Requests, header \in IssuedHeaders :
          JobReceive(p, "PUT", header, [UpdateJobBody EXCEPT !.id = 1])
    \/ \E p \in Requests, header \in IssuedHeaders :
          JobReceive(p, "DELETE", header, [EmptyJobBody EXCEPT !.id = 1])
    \/ \E p \in Requests : JobFindUnique(p)
    \/ \E p \in Requests : JobWrite(p)

SpecWriteRace == InitPopulated /\ [][NextWriteRace]_vars

\* C24: when PUT and DELETE requests for one posting interleave their
\* ownership read and their write, a request that finds the posting gone, at
\* the read or at the write, ends with 404 "Job not found or unauthorized" and
\* not with an internal error.
C24_GoneIs404 ==
    \A p \in Requests :
        (writing[p].pc = "done" /\ writing[p].gone) =>
            /\ writing[p].status = 404
            /\ writing[p].error = "Job not found or unauthorized"

\* alice's DELETE and alice's PUT both read posting 1; the DELETE removed it
\* and the PUT's update found no row
C24_Witness ==
    /\ \A p \in Requests : writing[p].pc = "done"
    /\ \E p, q \in Requests :
          /\ writing[p].method = "DELETE"
          /\ writing[p].status = 200
          /\ writing[q].method = "PUT"
          /\ writing[q].gone
          /\ writing[q].status = 500
    /\ jobs = {}

\* the part of C24 that holds: a posting changes or goes only in the write of
\* a request whose actor owns it, and the write is applied to a row that is
\* there
C24_WritesOnlyToOwned ==
    [][\A j \in jobs :
          j \notin jobs' =>
              \E p \in Requests :
                  /\ writing[p].pc = "write"
                  /\ writing'[p].pc = "done"
                  /\ writing'[p].status = 200
                  /\ writing[p].body.id = j.id
                  /\ writing[p].userId = j.postedById]_vars

----------------------------------------------------------------------------
\* Order of the registration checks

\* bodies that can fail one check or several at once
OrderBodies ==
    {[username |-> n, email |-> e, password |-> p, userType |-> k,
      additionalInfo |-> AgentInfo] :
        n \in {"alice", Undefined}, e \in Emails \cup {Undefined},
        p \in {"pw-alice", Undefined}, k \in {"AGENT", "ADMIN", Undefined}}

Missing(body) ==
    \/ body.username = Undefined \/ body.email = Undefined
    \/ body.password = Undefined \/ body.userType = Undefined

\* C25: register checks presence of username, email, password and userType,
\* then that userType is one of the three kinds, then that no identity has
\* the email or the username, and only then hashes and writes. A body that
\* fails several checks gets the error of the first one in this order, and a
\* body that fails any of them leaves every table as it is.
C25_ChecksInOrder ==
    /\ \A body \in OrderBodies :
          LET r == RegisterResult(body)
              badKind == body.userType \notin UserTypes
              taken == \E u \in users :
                          u.email = body.email \/ u.username = body.username
          IN  /\ Missing(body) =>
                    /\ r.status = 400
                    /\ r.error = "Username, email, password, and userType are required"
              /\ (~Missing(body) /\ badKind) =>
                    r.status = 400 /\ r.error = "Invalid user type"
              /\ (~Missing(body) /\ ~badKind /\ taken) =>
                    /\ r.status = 400
                    /\ r.error = "User with this email or username already exists"
              /\ (Missing(body) \/ badKind \/ taken) => NothingCreated(r)
              /\ ~NothingCreated(r) => (~Missing(body) /\ ~badKind /\ ~taken)
    /\ (resp.op = "register" /\ resp.userType \notin UserTypes) =>
          resp.error \in {"Username, email, password, and userType are required",
                          "Invalid user type"}

\* alice is registered; a second registration of alice with the kind ADMIN
\* fails the kind check and the uniqueness check and is told of the kind
C25_Witness ==
    /\ resp.op = "register"
    /\ resp.userType = "ADMIN"
    /\ \E u \in users : u.email = resp.email /\ u.username = resp.username
    /\ resp.status = 400
    /\ resp.error = "Invalid user type"

----------------------------------------------------------------------------
\* Required fields of POST /api/jobs

\* bodies that supply all six fields, some with a zero or the empty string
CreateInputs ==
    {FullJobBody, [FullJobBody EXCEPT !.vacancies = 0],
     [FullJobBody EXCEPT !.remuneration = 0], [FullJobBody EXCEPT !.contact = ""]}

NextCreate ==
    \/ \E header \in HeaderInputs, body \in CreateInputs : JobsPOST(header, body, FALSE)
    \/ \E header \in HeaderInputs, body \in JobsDeleteBodies : JobsDELETE(header, body)

SpecCreate == InitPopulated /\ [][NextCreate]_vars

\* the body carries each of the six fields
Supplied(body) ==
    /\ body.jobTitle # Undefined /\ body.vacancies # UndefinedNum
    /\ body.location # Undefined /\ body.durationHours # UndefinedNum
    /\ body.remuneration # UndefinedNum /\ body.contact # Undefined

\* C26: for an actor the gate lets through, POST /api/jobs answers 201 and
\* adds one posting exactly when the body supplies all six fields, and answers
\* 400 and adds nothing when one is not supplied.
C26_CreatedIffSupplied ==
    \A header \in IssuedHeaders :
        authMiddleware(JobsAllowedTypes, header).pass =>
            \A body \in JobsPostBodies \cup CreateInputs :
                LET r == JobsPostResult(header, body, FALSE) IN
                /\ Supplied(body) =>
                      /\ r.status = 201
                      /\ r.jobs = jobs \cup {r.job}
                      /\ r.job \notin jobs
                /\ ~Supplied(body) => (r.status = 400 /\ r.jobs = jobs)

\* alice's create, whose body supplies every field, was answered 400 by the
\* handler
C26_Witness ==
    /\ resp.op = "jobsPOST"
    /\ resp.token.userId = Alice.id
    /\ resp.ran
    /\ resp.status = 400
    /\ resp.error = "All fields are required"
    /\ jobs = {}

\* the statement of C26 that holds: created exactly when each of the six
\* fields is truthy
C26_CreatedIffTruthy ==
    \A header \in IssuedHeaders :
        authMiddleware(JobsAllowedTypes, header).pass =>
            \A body \in JobsPostBodies \cup CreateInputs :
                LET r == JobsPostResult(header, body, FALSE)
                    truthy == /\ ~Falsy(body.jobTitle) /\ ~FalsyNum(body.vacancies)
                              /\ ~Falsy(body.location) /\ ~FalsyNum(body.durationHours)
                              /\ ~FalsyNum(body.remuneration) /\ ~Falsy(body.contact)
                IN  /\ truthy => (r.status = 201 /\ r.jobs = jobs \cup {r.job})
                    /\ ~truthy => (r.status = 400 /\ r.jobs = jobs)

----------------------------------------------------------------------------
\* What an update leaves alone

\* the row prisma.job.create wrote for FullJobBody
PostedJob(id, ownerId) ==
    [id |-> id, jobTitle |-> FullJobBody.jobTitle, vacancies |-> FullJobBody.vacancies,
     location |-> FullJobBody.location, durationHours |-> FullJobBody.durationHours,
     remuneration |-> FullJobBody.remuneration, contact |-> FullJobBody.contact,
     postedById |-> ownerId]

\* alice and bob have each created a posting
InitTwoJobs ==
    /\ envSecret \in {"", ConfiguredSecret}
    /\ now = 0
    /\ users = {Alice, Bob, Carol}
    /\ universities = {UniversityRow(Bob.id, UniversityInfo)}
    /\ agents = {AgentRow(Alice.id, AgentInfo)}
    /\ trainers = {TrainerRow(Carol.id, TrainerInfo)}
    /\ nextUserId = 4
    /\ jobs = {PostedJob(1, Alice.id), PostedJob(2, Bob.id)}
    /\ nextJobId = 3
    /\ jobPosts = {}
    /\ nextJobPostId = 1
    /\ issued = {TokenOf(u, IF envSecret = "" THEN FallbackSecret ELSE envSecret, 0) :
                    u \in {Alice, Bob, Carol}}
    /\ registering = [p \in Requests |-> Idle]
    /\ writing = [p \in Requests |-> NotWriting]
    /\ resp = NoRequest

\* bodies of PUT: the example of the API page, a body with the id alone, a
\* body with all six fields, one that also names an owner
UpdateInputs ==
    {[b EXCEPT !.id = i] :
        b \in {UpdateJobBody, EmptyJobBody, FullJobBody,
               [UpdateJobBody EXCEPT !.postedById = Carol.id],
               [EmptyJobBody EXCEPT !.location = "Boston", !.remuneration = 0]},
        i \in {1, 2}}

NextUpdate ==
    \/ \E header \in HeaderInputs, body \in UpdateInputs : JobsPUT(header, body)
    \/ \E header \in HeaderInputs, body \in JobsDeleteBodies : JobsDELETE(header, body)

SpecUpdate == InitTwoJobs /\ [][NextUpdate]_vars

\* the value of a field after an update with this body
Updated(old, body, f) ==
    IF f \in {"jobTitle", "location", "contact"}
    THEN IF body[f] = Undefined THEN old[f] ELSE body[f]
    ELSE IF body[f] = UndefinedNum THEN old[f] ELSE body[f]

\* every update that succeeds writes the supplied fields and nothing else
C27_Inv ==
    \A header \in IssuedHeaders, body \in UpdateInputs :
        LET r == JobsPutResult(header, body) IN
        r.status = 200 =>
            LET old == FindJob(body.id) IN
            /\ old.postedById = HeaderToken(header).userId
            /\ \A f \in JobFields : r.job[f] = Updated(old, body, f)
            /\ r.job.id = old.id
            /\ r.job.postedById = old.postedById
            /\ r.jobs \ {r.job} = jobs \ {old}
            /\ r.nextJobId = nextJobId

\* a PUT step leaves every other posting and every identity as they are
C27_Step ==
    resp'.op = "jobsPUT" =>
        /\ UNCHANGED <<userVars, jobPostVars, nextJobId>>
        /\ \A j \in jobs : j.id # resp'.id => j \in jobs'
        /\ \A k \in jobs' : k.id # resp'.id => k \in jobs
        /\ {j.id : j \in jobs'} = {j.id : j \in jobs}

\* C27: an update by the owner that succeeds changes the fields the body
\* supplies and only those; fields the body does not supply keep their values,
\* and the posting's id and owner, every other posting and every identity are
\* as before.
C27_UpdateChangesSuppliedFieldsOnly == [](C27_Inv) /\ [][C27_Step]_vars

\* alice sent the API page's example: title and vacancies are new, the other
\* fields and bob's posting are as they were
C27_Witness ==
    /\ resp.op = "jobsPUT"
    /\ resp.status = 200
    /\ resp.id = 1
    /\ \E j \in jobs :
          /\ j.id = 1
          /\ j.postedById = Alice.id
          /\ j.jobTitle = UpdateJobBody.jobTitle
          /\ j.vacancies = UpdateJobBody.vacancies
          /\ j.location = FullJobBody.location
          /\ j.remuneration = FullJobBody.remuneration
    /\ PostedJob(2, Bob.id) \in jobs

----------------------------------------------------------------------------
\* Failures inside the handlers

\* registrations of alice with and without additionalInfo, and of bob without
FailureBodies ==
    {[username |-> "alice", email |-> "alice@x", password |-> "pw-alice",
      userType |-> "AGENT", additionalInfo |-> i] : i \in {AgentInfo, NoInfo}}
      \cup {[username |-> "bob", email |-> "bob@x", password |-> "pw-bob",
             userType |-> "UNIVERSITY", additionalInfo |-> NoInfo]}

\* register, login, create with foreign keys in the store, and identities
\* that are deleted while their tokens are still valid
NextFailures ==
    \/ \E body \in FailureBodies : Register(body)
    \/ \E body \in LoginBodies : Login(body)
    \/ \E header \in IssuedHeaders \cup {NoHeader} : JobsPOST(header, FullJobBody, TRUE)
    \/ \E u \in users : DeleteIdentity(u.id)

SpecFailures == Init /\ [][NextFailures]_vars

Statuses == {200, 201, 400, 401, 403, 404, 500}

\* C28: an error thrown inside register, login or a jobs handler, by the
\* store or by the token codec, is answered by the handler's catch with 500
\* and the body "Internal server error"; each request gets one response, and
\* no message of the error is in it.
C28_FailuresAre500 ==
    /\ resp.op # "none" => resp.status \in Statuses
    /\ resp.status = 500 => resp.error = "Internal server error"
    /\ \A body \in FailureBodies :
          (RegisterCheck(body) = "" /\ ~body.additionalInfo.present) =>
              /\ RegisterResult(body).status = 500
              /\ RegisterResult(body).error = "Internal server error"
    /\ \A body \in LoginBodies :
          LET r == LoginResult(body) IN
          /\ r.status \in Statuses
          /\ r.status = 500 => r.error = "Internal server error"
          /\ (CredentialsVerify(body) /\ ProfileMissing(body)) => r.status = 500
    /\ \A header \in IssuedHeaders :
          LET gate == authMiddleware(JobsAllowedTypes, header)
              r == JobsPostResult(header, FullJobBody, TRUE)
          IN  (gate.pass /\ CreateThrows(gate.user.userId, TRUE)) =>
                  /\ r.status = 500
                  /\ r.error = "Internal server error"
                  /\ r.jobs = jobs

\* prisma.job.create threw inside the create handler, for the token of an
\* identity that is gone, and the answer was the 500 of the catch
C28_Witness ==
    /\ resp.op = "jobsPOST"
    /\ resp.ran
    /\ resp.status = 500
    /\ resp.error = "Internal server error"
    /\ FindUserById(resp.token.userId) = NoUser
    /\ jobs = {}

----------------------------------------------------------------------------
\* Password hashes in responses

\* C29: no response of register, login or a jobs operation carries the
\* password hash of an identity.
C29_NoHashInResponse ==
    /\ resp.op \in {"register", "login"} => "password" \notin resp.exposed
    /\ \A body \in LoginBodies : "password" \notin LoginResult(body).exposed
    /\ \A e \in JobsGetResult : "password" \notin DOMAIN e.postedBy

\* a trainer's registration was answered 201 with the user row, password
\* hash included
C29_Witness ==
    /\ resp.op = "register"
    /\ resp.status = 201
    /\ resp.userType = "TRAINER"
    /\ "password" \in resp.exposed
    /\ \E u \in users : u.id = resp.userId /\ u.password = Hash(resp.password)

\* the part of C29 that holds: login and the registrations of the other two
\* kinds answer without the hash
C29_NoHashOutsideTrainerRegister ==
    /\ (resp.op = "login" \/ (resp.op = "register" /\ resp.userType # "TRAINER"))
          => "password" \notin resp.exposed
    /\ \A body \in LoginBodies : "password" \notin LoginResult(body).exposed

----------------------------------------------------------------------------
\* Owners of postings

\* C30: in every reachable state the owner id of each posting is the id of
\* an identity in the store, and that identity is a UNIVERSITY or an AGENT.
C30_OwnerExistsAndMayPost ==
    /\ \A j \in jobs :
          \E u \in users : u.id = j.postedById /\ u.userType \in {"UNIVERSITY", "AGENT"}
    /\ \A j \in jobPosts :
          \E u \in users : u.id = j.userId /\ u.userType \in {"UNIVERSITY", "AGENT"}

\* a create with a token a caller signed with the fallback secret, naming
\* carol's id and the kind AGENT, was answered 201: the posting's owner is
\* carol, a TRAINER
C30_Witness ==
    /\ resp.op = "jobsPOST"
    /\ resp.status = 201
    /\ resp.token \notin issued
    /\ \E j \in jobs :
          /\ j.id = resp.id
          /\ j.postedById = Carol.id
          /\ FindUserById(j.postedById).userType = "TRAINER"

\* with a configured secret, and no identity deleted or changed under a
\* valid token, the owners are as C30 says
C30_HoldsWithConfiguredSecret ==
    envSecret # "" =>
        \A j \in jobs :
            \E u \in users : u.id = j.postedById /\ u.userType \in {"UNIVERSITY", "AGENT"}

============================================================================
